---- MODULE Spec2Model ----
(***************************************************************************)
(* app.py of hng13-devops-stage1: a Flask application with one view,       *)
(* home, on "/".  The module body (lines 1-21) runs top to bottom when the *)
(* file is executed; app.run then serves requests, each handled by its own *)
(* thread of the server.  Strings are sequences of one-character strings,  *)
(* so that formatting, escaping and substitution are computed.             *)
(***************************************************************************)
EXTENDS Integers, Sequences, FiniteSets, TLC

\* ------------------------------------------------------------------ bounds
\* Requests accepted in one process lifetime.
MaxRequests == 2
\* Midnights that pass while the process lives.
MaxTicks == 1

\* ------------------------------------------------------------- the clock
\* Local dates the system clock may show when the process starts.
StartDates ==
    { [day |-> 5,  month |-> 4,  year |-> 2024],
      [day |-> 31, month |-> 12, year |-> 2024] }

IsLeap(y) == (y % 4 = 0 /\ y % 100 # 0) \/ y % 400 = 0

DaysInMonth(m, y) ==
    IF m = 2 THEN (IF IsLeap(y) THEN 29 ELSE 28)
    ELSE IF m \in {4, 6, 9, 11} THEN 30 ELSE 31

NoDate == [day |-> 0, month |-> 0, year |-> 0]

\* The local date one midnight later.
NextDay(dt) ==
    IF dt.day < DaysInMonth(dt.month, dt.year)
    THEN [dt EXCEPT !.day = dt.day + 1]
    ELSE IF dt.month < 12
         THEN [day |-> 1, month |-> dt.month + 1, year |-> dt.year]
         ELSE [day |-> 1, month |-> 1, year |-> dt.year + 1]

\* ------------------------------------------------------------ formatting
Digit(n) == <<"0", "1", "2", "3", "4", "5", "6", "7", "8", "9">>[n + 1]

DigitChars == {Digit(n) : n \in 0..9}

\* One strftime field of fixed width: decimal, zero-padded on the left.
RECURSIVE ZeroPad(_, _)
ZeroPad(n, width) ==
    IF width = 0 THEN <<>>
    ELSE Append(ZeroPad(n \div 10, width - 1), Digit(n % 10))

\* A number in decimal, without padding.
RECURSIVE Decimal(_)
Decimal(n) == IF n < 10 THEN <<Digit(n)>> ELSE Append(Decimal(n \div 10), Digit(n % 10))

\* strftime("%-d/%-m/%Y"): day and month without padding.
strftime_unpadded(dt) ==
    Decimal(dt.day) \o <<"/">> \o Decimal(dt.month) \o <<"/">> \o ZeroPad(dt.year, 4)

\* datetime.strftime("%d/%m/%Y")
strftime(dt) ==
    ZeroPad(dt.day, 2) \o <<"/">> \o ZeroPad(dt.month, 2) \o <<"/">> \o ZeroPad(dt.year, 4)

\* --------------------------------------------------------------- literals
Stage1 == <<"S", "t", "a", "g", "e", " ", "1">>

IbrahimNassar ==
    <<"I", "b", "r", "a", "h", "i", "m", " ", "N", "a", "s", "s", "a", "r">>

\* home's first argument to render_template.
TemplateName == "index.html"

HOST == "0.0.0.0"

PORT == 5000

\* -------------------------------------------------------------- rendering
\* markupsafe.escape, applied by Jinja to every substituted value of a
\* template whose name ends in .html.
EscapeChar(c) ==
    CASE c = "&" -> <<"&", "a", "m", "p", ";">>
      [] c = "<" -> <<"&", "l", "t", ";">>
      [] c = ">" -> <<"&", "g", "t", ";">>
      [] c = "'" -> <<"&", "#", "3", "9", ";">>
      [] c = "\"" -> <<"&", "#", "3", "4", ";">>
      [] OTHER -> <<c>>

RECURSIVE Escape(_)
Escape(s) == IF s = <<>> THEN <<>> ELSE EscapeChar(Head(s)) \o Escape(Tail(s))

\* templates/index.html: literal markup around the three placeholders.
IndexTemplate ==
    << [var |-> "",            lit |-> <<"<", "h", "1", ">">>],
       [var |-> "stage",       lit |-> <<>>],
       [var |-> "",            lit |-> <<"<", "p", ">">>],
       [var |-> "dev_name",    lit |-> <<>>],
       [var |-> "",            lit |-> <<"<", "p", ">">>],
       [var |-> "deploy_date", lit |-> <<>>] >>

RECURSIVE RenderParts(_, _)
RenderParts(parts, ctx) ==
    IF parts = <<>> THEN <<>>
    ELSE (IF Head(parts).var = "" THEN Head(parts).lit
          ELSE Escape(ctx[Head(parts).var]))
         \o RenderParts(Tail(parts), ctx)

\* What a template environment can hold for "index.html".
TemplateStates == {"ok", "missing", "broken"}

\* render_template(name, **ctx): the text, or the exception raised.
render_template(state, name, ctx) ==
    IF state = "missing" THEN [raised |-> "TemplateNotFound", text |-> <<>>]
    ELSE IF state = "broken" THEN [raised |-> "TemplateRenderError", text |-> <<>>]
    ELSE [raised |-> "", text |-> RenderParts(IndexTemplate, ctx)]

\* ---------------------------------------------------------------- routing
Methods == {"GET", "HEAD", "OPTIONS", "POST"}

\* URLs as their path segments: "/" is <<>>.
RootPath == <<>>

Paths == {RootPath, <<"about">>, <<"static", "app.css">>}

\* The methods of a rule registered without methods=: GET, and the HEAD and
\* OPTIONS that Flask adds to it.
DefaultMethods == {"GET", "HEAD", "OPTIONS"}

\* Flask(__name__) registers the static-file rule /static/<path:filename>.
StaticRule == [rule |-> <<"static">>, wild |-> TRUE, endpoint |-> "static", methods |-> DefaultMethods]

\* home registered with methods=['POST'].
HomeRulePostOnly == [rule |-> RootPath, wild |-> FALSE, endpoint |-> "home", methods |-> {"POST", "OPTIONS"}]

\* home registered with methods=['GET', 'POST'].
HomeRuleGetPost == [rule |-> RootPath, wild |-> FALSE, endpoint |-> "home", methods |-> DefaultMethods \cup {"POST"}]

\* home registered on '/<path:p>' instead of '/'.
HomeRuleAnyPath == [rule |-> RootPath, wild |-> TRUE, endpoint |-> "home", methods |-> DefaultMethods]

\* @app.route('/') on home.
HomeRule == [rule |-> RootPath, wild |-> FALSE, endpoint |-> "home", methods |-> DefaultMethods]

RuleMatches(r, path) ==
    IF r.wild
    THEN Len(path) > Len(r.rule) /\ SubSeq(path, 1, Len(r.rule)) = r.rule
    ELSE path = r.rule

\* ------------------------------------------------------------- responses
NoBody == <<>>

NoCtx == [stage |-> <<>>, dev_name |-> <<>>, deploy_date |-> <<>>]

NoCall == [made |-> FALSE, template |-> "", ctx |-> NoCtx]

NoResp == [status |-> 0, ctype |-> "", body |-> NoBody, by |-> "", exc |-> ""]

\* The server's own page for an HTTP error.
DefaultPage(code) == <<"<", "t", "i", "t", "l", "e", ">">> \o ZeroPad(code, 3)

\* werkzeug's response for an HTTPException; exc names what the view raised.
ErrorResponse(code, exc) ==
    [status |-> code, ctype |-> "text/html", body |-> DefaultPage(code),
     by |-> "server", exc |-> exc]

\* A view's str return value becomes a 200 text/html response; the body is
\* not sent for HEAD.
ViewResponse(method, text) ==
    [status |-> 200, ctype |-> "text/html",
     body |-> IF method = "HEAD" THEN NoBody ELSE text,
     by |-> "home", exc |-> ""]

\* ------------------------------------------------------------------ state
VARIABLES
    pc,            \* the main thread: the next line of app.py, or where it ended
    bound,         \* the names bound in the module namespace
    url_map,       \* app.url_map
    DEVOPS_STAGE,
    DEV_NAME,
    DEPLOY_DATE,
    listening,     \* the sockets app.run has bound
    binds,         \* bind attempts made
    clockReads,    \* calls of datetime.now()
    startedOn,     \* the date datetime.now() returned at line 9
    signalled,     \* whether a signal has ended the process
    reqs,          \* the requests accepted, in order of arrival, with their threads
    now,           \* the local date of the system clock
    ticks,         \* midnights passed
    portFree,      \* whether port 5000 can be bound
    templates      \* what the template folder holds for index.html

vars ==
    <<pc, bound, url_map, DEVOPS_STAGE, DEV_NAME, DEPLOY_DATE, listening, binds,
      clockReads, startedOn, signalled, reqs, now, ticks, portFree, templates>>

app_vars == <<bound, url_map, DEVOPS_STAGE, DEV_NAME, DEPLOY_DATE>>

env_vars == <<now, ticks, portFree, templates>>

Init ==
    /\ pc = "line4"
    /\ bound = {}
    /\ url_map = {}
    /\ DEVOPS_STAGE = <<>>
    /\ DEV_NAME = <<>>
    /\ DEPLOY_DATE = <<>>
    /\ listening = {}
    /\ binds = 0
    /\ clockReads = 0
    /\ startedOn = NoDate
    /\ signalled = FALSE
    /\ reqs = <<>>
    /\ now \in StartDates
    /\ ticks = 0
    /\ portFree \in BOOLEAN
    /\ templates \in TemplateStates

\* ------------------------------------------------------- the module body
\* line 4: app = Flask(__name__)
CreateApp ==
    /\ pc = "line4"
    /\ pc' = "line7"
    /\ bound' = bound \cup {"app"}
    /\ url_map' = {StaticRule}
    /\ UNCHANGED <<DEVOPS_STAGE, DEV_NAME, DEPLOY_DATE, listening, binds, clockReads, startedOn, signalled, reqs>>
    /\ UNCHANGED env_vars

\* line 7
AssignStage ==
    /\ pc = "line7"
    /\ pc' = "line8"
    /\ DEVOPS_STAGE' = Stage1
    /\ bound' = bound \cup {"DEVOPS_STAGE"}
    /\ UNCHANGED <<url_map, DEV_NAME, DEPLOY_DATE, listening, binds, clockReads, startedOn, signalled, reqs>>
    /\ UNCHANGED env_vars

\* line 8
AssignDevName ==
    /\ pc = "line8"
    /\ pc' = "line9"
    /\ DEV_NAME' = IbrahimNassar
    /\ bound' = bound \cup {"DEV_NAME"}
    /\ UNCHANGED <<url_map, DEVOPS_STAGE, DEPLOY_DATE, listening, binds, clockReads, startedOn, signalled, reqs>>
    /\ UNCHANGED env_vars

\* line 9: DEPLOY_DATE = datetime.now().strftime("%d/%m/%Y")
AssignDeployDate ==
    /\ pc = "line9"
    /\ pc' = "line11"
    /\ DEPLOY_DATE' = strftime(now)
    /\ clockReads' = clockReads + 1
    /\ startedOn' = now
    /\ bound' = bound \cup {"DEPLOY_DATE"}
    /\ UNCHANGED <<url_map, DEVOPS_STAGE, DEV_NAME, listening, binds, signalled, reqs>>
    /\ UNCHANGED env_vars

\* lines 11-12: def home, decorated with app.route('/')
DefineHome ==
    /\ pc = "line11"
    /\ pc' = "line20"
    /\ bound' = bound \cup {"home"}
    /\ url_map' = url_map \cup {HomeRule}
    /\ UNCHANGED <<DEVOPS_STAGE, DEV_NAME, DEPLOY_DATE, listening, binds, clockReads, startedOn, signalled, reqs>>
    /\ UNCHANGED env_vars

\* A bootstrap that tries the bind again when it fails.
AfterBindRetrying(free) == IF free THEN "serving" ELSE "line20"

\* Where the main thread is after app.run's bind: in the serve loop, or, the
\* OSError of a failed bind ending the process, out of it.
AfterBind(free) == IF free THEN "serving" ELSE "exited"

\* lines 20-21: app.run(host='0.0.0.0', port=5000)
Run ==
    /\ pc = "line20"
    /\ binds' = binds + 1
    /\ pc' = AfterBind(portFree)
    /\ listening' = IF portFree THEN {[host |-> HOST, port |-> PORT]} ELSE {}
    /\ UNCHANGED <<reqs, clockReads, startedOn, signalled>>
    /\ UNCHANGED app_vars
    /\ UNCHANGED env_vars

\* ------------------------------------------------------ request handling
NewRequest(m, p, date) ==
    [method |-> m, path |-> p, phase |-> "routing", arrived |-> date,
     invoked |-> FALSE, call |-> NoCall, resp |-> NoResp]

\* The serve loop accepts a connection and hands the request to a thread.
Accept(m, p) ==
    /\ pc = "serving"
    /\ Len(reqs) < MaxRequests
    /\ reqs' = Append(reqs, NewRequest(m, p, now))
    /\ UNCHANGED <<pc, listening, binds, clockReads, startedOn, signalled>>
    /\ UNCHANGED app_vars
    /\ UNCHANGED env_vars

\* The automatic answer to OPTIONS on a matched rule.
OptionsResponse ==
    [status |-> 200, ctype |-> "text/html", body |-> NoBody, by |-> "server", exc |-> ""]

\* url_map's match of a request: the endpoint to call, or the response that
\* ends it (NotFound, MethodNotAllowed, automatic OPTIONS).
Route(map, method, path) ==
    LET matching == {u \in map : RuleMatches(u, path)} IN
    IF matching = {}
    THEN [phase |-> "done", resp |-> ErrorResponse(404, "NotFound")]
    ELSE LET u == CHOOSE x \in matching : TRUE IN
         IF method \notin u.methods
         THEN [phase |-> "done", resp |-> ErrorResponse(405, "MethodNotAllowed")]
         ELSE IF method = "OPTIONS"
              THEN [phase |-> "done", resp |-> OptionsResponse]
              ELSE [phase |-> u.endpoint, resp |-> NoResp]

Dispatch(i) ==
    /\ pc = "serving"
    /\ i \in DOMAIN reqs
    /\ reqs[i].phase = "routing"
    /\ LET to == Route(url_map, reqs[i].method, reqs[i].path) IN
       reqs' = [reqs EXCEPT ![i].phase = to.phase, ![i].resp = to.resp]
    /\ UNCHANGED <<pc, listening, binds, clockReads, startedOn, signalled>>
    /\ UNCHANGED app_vars
    /\ UNCHANGED env_vars

\* home with the date taken from the clock at each call.
HomeArgsPerRequest ==
    [made |-> TRUE, template |-> TemplateName,
     ctx |-> [stage |-> DEVOPS_STAGE, dev_name |-> DEV_NAME,
              deploy_date |-> strftime(now)]]

\* lines 13-18: the arguments home passes to render_template.
HomeArgs ==
    [made |-> TRUE, template |-> TemplateName,
     ctx |-> [stage |-> DEVOPS_STAGE, dev_name |-> DEV_NAME,
              deploy_date |-> DEPLOY_DATE]]

HomeReads == {"DEVOPS_STAGE", "DEV_NAME", "DEPLOY_DATE"}

\* home that stores the date it shows.
CallHomeStoring(i) ==
    /\ pc = "serving"
    /\ i \in DOMAIN reqs
    /\ reqs[i].phase = "home"
    /\ DEPLOY_DATE' = strftime(now)
    /\ reqs' = [reqs EXCEPT ![i].invoked = TRUE, ![i].phase = "rendering",
                            ![i].call = HomeArgs]
    /\ UNCHANGED <<pc, listening, binds, clockReads, startedOn, signalled, bound, url_map, DEVOPS_STAGE, DEV_NAME>>
    /\ UNCHANGED env_vars

\* lines 12-18, up to the call of render_template: home evaluates its
\* arguments from the module's globals.
CallHome(i) ==
    /\ pc = "serving"
    /\ i \in DOMAIN reqs
    /\ reqs[i].phase = "home"
    /\ reqs' = IF HomeReads \subseteq bound
               THEN [reqs EXCEPT ![i].invoked = TRUE, ![i].phase = "rendering",
                                 ![i].call = HomeArgs]
               ELSE [reqs EXCEPT ![i].invoked = TRUE, ![i].phase = "done",
                                 ![i].resp = ErrorResponse(500, "NameError")]
    /\ UNCHANGED <<pc, listening, binds, clockReads, startedOn, signalled>>
    /\ UNCHANGED app_vars
    /\ UNCHANGED env_vars

\* home with a try/except around render_template and its own error page.
RenderCatching(i) ==
    /\ pc = "serving"
    /\ i \in DOMAIN reqs
    /\ reqs[i].phase = "rendering"
    /\ LET out == render_template(templates, reqs[i].call.template, reqs[i].call.ctx) IN
       reqs' = [reqs EXCEPT ![i].phase = "done",
                            ![i].resp = IF out.raised = ""
                                        THEN ViewResponse(reqs[i].method, out.text)
                                        ELSE [ErrorResponse(500, "") EXCEPT !.by = "home"]]
    /\ UNCHANGED <<pc, listening, binds, clockReads, startedOn, signalled>>
    /\ UNCHANGED app_vars
    /\ UNCHANGED env_vars

\* A server whose loop ends when a view raises.
RenderCrashing(i) ==
    /\ pc = "serving"
    /\ i \in DOMAIN reqs
    /\ reqs[i].phase = "rendering"
    /\ LET out == render_template(templates, reqs[i].call.template, reqs[i].call.ctx) IN
       /\ reqs' = [reqs EXCEPT ![i].phase = "done",
                               ![i].resp = IF out.raised = ""
                                           THEN ViewResponse(reqs[i].method, out.text)
                                           ELSE ErrorResponse(500, out.raised)]
       /\ pc' = IF out.raised = "" THEN pc ELSE "exited"
    /\ UNCHANGED <<listening, binds, clockReads, startedOn, signalled>>
    /\ UNCHANGED app_vars
    /\ UNCHANGED env_vars

\* lines 13-18, the call of render_template and the return: the text becomes
\* the response; an exception leaves home uncaught and the server answers 500.
Render(i) ==
    /\ pc = "serving"
    /\ i \in DOMAIN reqs
    /\ reqs[i].phase = "rendering"
    /\ LET out == render_template(templates, reqs[i].call.template, reqs[i].call.ctx) IN
       reqs' = [reqs EXCEPT ![i].phase = "done",
                            ![i].resp = IF out.raised = ""
                                        THEN ViewResponse(reqs[i].method, out.text)
                                        ELSE ErrorResponse(500, out.raised)]
    /\ UNCHANGED <<pc, listening, binds, clockReads, startedOn, signalled>>
    /\ UNCHANGED app_vars
    /\ UNCHANGED env_vars

StaticBody == <<"b", "o", "d", "y", "{", "}">>

\* Flask's static view: the file if the static folder holds it, or NotFound.
ServeStatic(i, staticFile) ==
    /\ pc = "serving"
    /\ i \in DOMAIN reqs
    /\ reqs[i].phase = "static"
    /\ reqs' = [reqs EXCEPT ![i].phase = "done",
                            ![i].resp = IF staticFile
                                        THEN [status |-> 200, ctype |-> "text/css",
                                              body |-> IF reqs[i].method = "HEAD"
                                                       THEN NoBody ELSE StaticBody,
                                              by |-> "static", exc |-> ""]
                                        ELSE ErrorResponse(404, "NotFound")]
    /\ UNCHANGED <<pc, listening, binds, clockReads, startedOn, signalled>>
    /\ UNCHANGED app_vars
    /\ UNCHANGED env_vars

\* ------------------------------------------------------------ environment
\* Midnight passes while the process serves (one that passes before line 9
\* reads the clock is another start date).
Tick ==
    /\ pc = "serving"
    /\ ticks < MaxTicks
    /\ now' = NextDay(now)
    /\ ticks' = ticks + 1
    /\ UNCHANGED <<pc, listening, binds, clockReads, startedOn, signalled, reqs, portFree, templates>>
    /\ UNCHANGED app_vars

\* A signal ends the process while it serves: its sockets and threads go.
Terminate ==
    /\ pc = "serving"
    /\ pc' = "killed"
    /\ listening' = {}
    /\ reqs' = <<>>
    /\ signalled' = TRUE
    /\ UNCHANGED <<binds, clockReads, startedOn>>
    /\ UNCHANGED app_vars
    /\ UNCHANGED env_vars

Next ==
    \/ CreateApp
    \/ AssignStage
    \/ AssignDevName
    \/ AssignDeployDate
    \/ DefineHome
    \/ Run
    \/ \E m \in Methods, p \in Paths : Accept(m, p)
    \/ \E i \in 1..MaxRequests : Dispatch(i)
    \/ \E i \in 1..MaxRequests : CallHome(i)
    \/ \E i \in 1..MaxRequests : Render(i)
    \/ \E i \in 1..MaxRequests, found \in BOOLEAN : ServeStatic(i, found)
    \/ Tick
    \/ Terminate

Spec == Init /\ [][Next]_vars

\* The process started from a checkout whose template folder holds a
\* renderable index.html.
InitDeployed == Init /\ templates = "ok"

SpecDeployed == InitDeployed /\ [][Next]_vars

\* ------------------------------------------------------------ properties
Done(i) == reqs[i].phase = "done"

IsRoot(i) == reqs[i].path = RootPath

IsGetRoot(i) == reqs[i].method = "GET" /\ IsRoot(i)

\* needle occurs in s.
Contains(s, needle) ==
    \E k \in 1..(Len(s) - Len(needle) + 1) :
        SubSeq(s, k, k + Len(needle) - 1) = needle

\* w is two digits, '/', two digits, '/', four digits.
IsDDMMYYYY(w) ==
    /\ Len(w) = 10
    /\ w[3] = "/"
    /\ w[6] = "/"
    /\ \A k \in {1, 2, 4, 5, 7, 8, 9, 10} : w[k] \in DigitChars

ContainsDate(s) ==
    \E k \in 1..(Len(s) - 9) : IsDDMMYYYY(SubSeq(s, k, k + 9))

DigitValue(c) == CHOOSE n \in 0..9 : Digit(n) = c

RECURSIVE Number(_)
Number(w) ==
    IF w = <<>> THEN 0
    ELSE 10 * Number(SubSeq(w, 1, Len(w) - 1)) + DigitValue(w[Len(w)])

\* The date a DD/MM/YYYY string writes.
DateWritten(w) ==
    [day |-> Number(SubSeq(w, 1, 2)), month |-> Number(SubSeq(w, 4, 5)),
     year |-> Number(SubSeq(w, 7, 10))]

\* C1 as stated: every answered GET / has status 200 and content type
\* text/html.
C1_EveryGetRootIs200Html ==
    \A i \in DOMAIN reqs :
        Done(i) /\ IsGetRoot(i) =>
            reqs[i].resp.status = 200 /\ reqs[i].resp.ctype = "text/html"

\* C1 amended: every answered GET / is text/html; its status is 200 when
\* index.html renders and 500 when the renderer fails, whatever other
\* requests came before or beside it.
C1_GetRootIs200HtmlWhenRendered ==
    \A i \in DOMAIN reqs :
        Done(i) /\ IsGetRoot(i) =>
            /\ reqs[i].resp.ctype = "text/html"
            /\ reqs[i].resp.status = (IF templates = "ok" THEN 200 ELSE 500)

C1_Witness ==
    /\ templates = "ok"
    /\ Len(reqs) = 2
    /\ Done(1) /\ reqs[1].resp.status = 404
    /\ Done(2) /\ IsGetRoot(2) /\ reqs[2].resp.status = 200
    /\ ticks = 1

\* C2: the clock is read once, and any two calls of the renderer in one
\* process get the same stage, dev_name and deploy_date, also when the
\* requests arrive on different calendar days.
C2_DeploymentInfoComputedOnce ==
    /\ clockReads <= 1
    /\ \A i, j \in DOMAIN reqs :
           reqs[i].call.made /\ reqs[j].call.made =>
               reqs[i].call.ctx = reqs[j].call.ctx

C2_Witness ==
    /\ Len(reqs) = 2
    /\ IsGetRoot(1) /\ reqs[1].call.made
    /\ IsGetRoot(2) /\ reqs[2].call.made
    /\ reqs[1].arrived # reqs[2].arrived
    /\ clockReads = 1

\* C3: every call home makes of the renderer names "index.html" and maps
\* stage to "Stage 1", dev_name to "Ibrahim Nassar" and deploy_date to the
\* start-up date written DD/MM/YYYY with zero padding; every body home
\* returns contains "Stage 1", "Ibrahim Nassar" and a DD/MM/YYYY date.
C3_RendererArgumentsAndBody ==
    \A i \in DOMAIN reqs :
        /\ reqs[i].invoked /\ reqs[i].call.made =>
               /\ reqs[i].call.template = "index.html"
               /\ reqs[i].call.ctx.stage = Stage1
               /\ reqs[i].call.ctx.dev_name = IbrahimNassar
               /\ IsDDMMYYYY(reqs[i].call.ctx.deploy_date)
               /\ DateWritten(reqs[i].call.ctx.deploy_date) = startedOn
        /\ Done(i) /\ IsGetRoot(i) /\ reqs[i].resp.by = "home" =>
               /\ Contains(reqs[i].resp.body, Stage1)
               /\ Contains(reqs[i].resp.body, IbrahimNassar)
               /\ ContainsDate(reqs[i].resp.body)

C3_Witness ==
    \E i \in DOMAIN reqs :
        /\ Done(i) /\ IsGetRoot(i) /\ reqs[i].resp.by = "home"
        /\ startedOn = [day |-> 5, month |-> 4, year |-> 2024]
        /\ Contains(reqs[i].resp.body,
                    <<"0", "5", "/", "0", "4", "/", "2", "0", "2", "4">>)

\* C4 as stated: an answered GET / has status 200 and a body with
\* "Stage 1", "Ibrahim Nassar" and the date of the day the request was made.
C4_BodyShowsDateOfRequest ==
    \A i \in DOMAIN reqs :
        Done(i) /\ IsGetRoot(i) =>
            /\ reqs[i].resp.status = 200
            /\ Contains(reqs[i].resp.body, Stage1)
            /\ Contains(reqs[i].resp.body, IbrahimNassar)
            /\ Contains(reqs[i].resp.body, strftime(reqs[i].arrived))

\* C4 amended: with index.html renderable, an answered GET / has status 200
\* and a body with "Stage 1", "Ibrahim Nassar" and the date of the day the
\* process started, which is the day of the request only when no midnight
\* has passed in between.
C4_BodyShowsDateOfStart ==
    \A i \in DOMAIN reqs :
        Done(i) /\ IsGetRoot(i) =>
            /\ reqs[i].resp.status = 200
            /\ Contains(reqs[i].resp.body, Stage1)
            /\ Contains(reqs[i].resp.body, IbrahimNassar)
            /\ Contains(reqs[i].resp.body, strftime(startedOn))
            /\ (reqs[i].arrived = startedOn =>
                    Contains(reqs[i].resp.body, strftime(reqs[i].arrived)))

C4_Witness ==
    \E i \in DOMAIN reqs :
        /\ Done(i) /\ IsGetRoot(i)
        /\ reqs[i].arrived # startedOn
        /\ reqs[i].resp.status = 200

RenderErrors == {"TemplateNotFound", "TemplateRenderError"}

\* C5: the step in which render_template raises for request i ends the
\* request with the server's own 500 page, naming the exception home let
\* through, and changes nothing else: the process still serves, and the
\* module's globals, the URL map and the socket are as they were.
C5_RenderFailureIsDefault500 ==
    [][\A i \in DOMAIN reqs :
           (/\ reqs[i].phase = "rendering"
            /\ templates # "ok"
            /\ i \in DOMAIN reqs'
            /\ reqs'[i].phase = "done") =>
               /\ reqs'[i].resp.status = 500
               /\ reqs'[i].resp.by = "server"
               /\ reqs'[i].resp.exc \in RenderErrors
               /\ reqs'[i].resp.body = DefaultPage(500)
               /\ pc' = "serving"
               /\ UNCHANGED <<bound, url_map, DEVOPS_STAGE, DEV_NAME, DEPLOY_DATE, listening>>
               /\ \A j \in DOMAIN reqs : j # i => reqs'[j] = reqs[j]]_vars

\* A failed request followed by one that arrived after the failure and was
\* answered as usual.
C5_Witness ==
    /\ pc = "serving"
    /\ Len(reqs) = 2
    /\ Done(1) /\ IsGetRoot(1) /\ reqs[1].resp.exc = "TemplateNotFound"
    /\ Done(2) /\ reqs[2].resp.status = 404
    /\ reqs[2].arrived # reqs[1].arrived

\* C6 as stated: an answered request to a path other than "/" never called
\* home or the renderer and has status 404.
C6_EveryOtherPathIs404 ==
    \A i \in DOMAIN reqs :
        Done(i) /\ ~IsRoot(i) =>
            /\ ~reqs[i].invoked
            /\ ~reqs[i].call.made
            /\ reqs[i].resp.status = 404

UnderStatic(path) == Len(path) > 1 /\ path[1] = "static"

\* C6 amended: no request to a path other than "/" calls home or the
\* renderer; it is answered with the server's 404 page unless the path is
\* under /static/, the rule Flask registers by itself, where the answer is
\* 405 for a method other than GET, HEAD and OPTIONS, the automatic 200 for
\* OPTIONS, and the file or 404 for GET and HEAD.
C6_UndefinedPathIs404 ==
    \A i \in DOMAIN reqs :
        ~IsRoot(i) =>
            /\ ~reqs[i].invoked
            /\ ~reqs[i].call.made
            /\ Done(i) /\ ~UnderStatic(reqs[i].path) =>
                   reqs[i].resp.status = 404 /\ reqs[i].resp.by = "server"
            /\ Done(i) /\ UnderStatic(reqs[i].path) =>
                   reqs[i].resp.status =
                       (IF reqs[i].method \notin {"GET", "HEAD", "OPTIONS"} THEN 405
                        ELSE IF reqs[i].method = "OPTIONS" THEN 200
                        ELSE IF reqs[i].resp.by = "static" THEN 200 ELSE 404)

C6_Witness ==
    /\ Len(reqs) = 2
    /\ Done(1) /\ reqs[1].path = <<"about">> /\ reqs[1].method = "POST"
    /\ reqs[1].resp.status = 404
    /\ Done(2) /\ reqs[2].path = <<"about">> /\ reqs[2].method = "GET"
    /\ reqs[2].resp.status = 404

\* C7 as stated: an answered request to "/" with a method other than GET
\* never called home or the renderer and has status 405.
C7_EveryNonGetOnRootIs405 ==
    \A i \in DOMAIN reqs :
        Done(i) /\ IsRoot(i) /\ reqs[i].method # "GET" =>
            /\ ~reqs[i].invoked
            /\ ~reqs[i].call.made
            /\ reqs[i].resp.status = 405

\* C7 amended: a request to "/" with a method other than GET, HEAD and
\* OPTIONS (POST) never calls home or the renderer and is answered 405;
\* OPTIONS is answered 200 without calling home, and HEAD calls home as GET
\* does.
C7_UnregisteredMethodOnRootIs405 ==
    \A i \in DOMAIN reqs :
        IsRoot(i) =>
            /\ reqs[i].method \notin {"GET", "HEAD"} =>
                   ~reqs[i].invoked /\ ~reqs[i].call.made
            /\ Done(i) /\ reqs[i].method \notin {"GET", "HEAD", "OPTIONS"} =>
                   reqs[i].resp.status = 405 /\ reqs[i].resp.by = "server"
            /\ Done(i) /\ reqs[i].method = "OPTIONS" => reqs[i].resp.status = 200
            /\ Done(i) /\ reqs[i].method = "HEAD" => reqs[i].invoked

C7_Witness ==
    \E i \in DOMAIN reqs :
        /\ Done(i) /\ IsRoot(i) /\ reqs[i].method = "POST"
        /\ reqs[i].resp.status = 405

\* C8: the bind is attempted at most once, and when it fails the process
\* has exited with no socket bound and no request accepted.
C8_BindFailureIsFatal ==
    /\ binds <= 1
    /\ (binds = 1 /\ ~portFree) =>
           pc = "exited" /\ listening = {} /\ reqs = <<>>
    /\ pc = "exited" => ~portFree /\ binds = 1

C8_Witness == pc = "exited" /\ binds = 1 /\ ~portFree /\ HomeRule \in url_map

\* C9: once the bind has succeeded and no signal has come, the process is
\* in the serve loop, listening on 0.0.0.0:5000 and nowhere else, whatever
\* requests it has answered.
C9_ServesUntilSignalled ==
    /\ (binds = 1 /\ portFree /\ ~signalled) =>
           pc = "serving" /\ listening = {[host |-> "0.0.0.0", port |-> 5000]}
    /\ pc = "serving" => ~signalled
    /\ pc = "killed" <=> signalled

C9_Witness ==
    /\ pc = "serving"
    /\ Len(reqs) = 2
    /\ Done(1) /\ reqs[1].resp.status = 500
    /\ Done(2) /\ reqs[2].resp.status = 405

Handling(i) == reqs[i].phase \in {"routing", "home", "rendering", "static"}

\* C10: every step taken while a request is being handled leaves the
\* module's globals and the URL map as they were, and they are all bound
\* by then: DEVOPS_STAGE, DEV_NAME and DEPLOY_DATE hold the values of lines
\* 7-9 from the first accepted request on.
C10_HandlersOnlyReadGlobals ==
    [][(\E i \in DOMAIN reqs : Handling(i)) =>
           /\ HomeReads \subseteq bound
           /\ DEVOPS_STAGE = Stage1
           /\ DEV_NAME = IbrahimNassar
           /\ DEPLOY_DATE = strftime(startedOn)
           /\ UNCHANGED <<bound, url_map, DEVOPS_STAGE, DEV_NAME, DEPLOY_DATE>>]_vars

\* Two handlers inside home at the same time, started on different days.
C10_Witness ==
    /\ Len(reqs) = 2
    /\ reqs[1].phase = "rendering"
    /\ reqs[2].phase = "rendering"
    /\ reqs[1].arrived # reqs[2].arrived

====
